---- MODULE Spec2Model ----
(***************************************************************************)
(* Receipt analyzer: OCR text clean-up, line parser, expense categorizer   *)
(* and spending analyzer.                                                  *)
(*                                                                         *)
(* Text is a sequence of one-character strings.  Money is an integer       *)
(* number of cents (float("12.99") is 1299, float("150") is 15000), so     *)
(* sums and comparisons are those of exact arithmetic.                     *)
(***************************************************************************)
EXTENDS Integers, Sequences, FiniteSets, TLC

\* ------------------------------------------------------------------ bounds
\* number of tokens a generated OCR text is concatenated from
MaxTokens == 3
\* number of lines the OCR engine reads from one image
MaxOcrLines == 2
\* numbers read from digit runs saturate here (Python floats do not overflow;
\* every price above 1000 is rejected, so only huge quantities are affected)
NumCap == 1000000

\* ------------------------------------------------------- character classes
DigitChars == <<"0", "1", "2", "3", "4", "5", "6", "7", "8", "9">>
UpperChars == <<"A", "B", "C", "D", "E", "F", "G", "H", "I", "J", "K", "L", "M",
                "N", "O", "P", "Q", "R", "S", "T", "U", "V", "W", "X", "Y", "Z">>
LowerChars == <<"a", "b", "c", "d", "e", "f", "g", "h", "i", "j", "k", "l", "m",
                "n", "o", "p", "q", "r", "s", "t", "u", "v", "w", "x", "y", "z">>

IsDigit(c) == \E i \in 1..10 : DigitChars[i] = c
IsUpper(c) == \E i \in 1..26 : UpperChars[i] = c
IsLower(c) == \E i \in 1..26 : LowerChars[i] = c
\* regex \s
IsSpace(c) == c \in {" ", "\t", "\n", "\r", "\f"}
\* regex \w
IsWordChar(c) == IsDigit(c) \/ IsUpper(c) \/ IsLower(c) \/ c = "_"

DigitVal(c) == (CHOOSE i \in 1..10 : DigitChars[i] = c) - 1
ToLower(c) == IF IsUpper(c) THEN LowerChars[CHOOSE i \in 1..26 : UpperChars[i] = c] ELSE c
ToUpper(c) == IF IsLower(c) THEN UpperChars[CHOOSE i \in 1..26 : LowerChars[i] = c] ELSE c

\* str.lower()
Lower(s) == [i \in 1..Len(s) |-> ToLower(s[i])]

\* `t in s` and re.search of a literal pattern: t occurs in s
Contains(s, t) == \E i \in 0..(Len(s) - Len(t)) : SubSeq(s, i + 1, i + Len(t)) = t

\* str.title(): a letter is upper-cased when the character before it is not a
\* letter, lower-cased otherwise
Title(s) ==
    [i \in 1..Len(s) |->
        IF i > 1 /\ (IsUpper(s[i - 1]) \/ IsLower(s[i - 1]))
        THEN ToLower(s[i]) ELSE ToUpper(s[i])]

\* first index >= p of s that is not whitespace (Len(s)+1 if none)
RECURSIVE SkipSpaces(_, _)
SkipSpaces(s, p) ==
    IF p <= Len(s) /\ IsSpace(s[p]) THEN SkipSpaces(s, p + 1) ELSE p

\* first index >= p of s that is not a digit (Len(s)+1 if none)
RECURSIVE RunEnd(_, _)
RunEnd(s, p) ==
    IF p <= Len(s) /\ IsDigit(s[p]) THEN RunEnd(s, p + 1) ELSE p

\* value of the digits s[p..e-1], saturating at NumCap
RECURSIVE NumVal(_, _, _, _)
NumVal(s, p, e, acc) ==
    IF p >= e THEN acc
    ELSE LET v == acc * 10 + DigitVal(s[p])
         IN NumVal(s, p + 1, e, IF v > NumCap THEN NumCap ELSE v)

\* str.strip()
RECURSIVE RStrip(_)
RStrip(s) ==
    IF Len(s) > 0 /\ IsSpace(s[Len(s)]) THEN RStrip(SubSeq(s, 1, Len(s) - 1)) ELSE s
Strip(s) == LET r == RStrip(s) IN SubSeq(r, SkipSpaces(r, 1), Len(r))

\* str.split('\n'): the pieces between line breaks (always at least one piece)
RECURSIVE SplitLines(_, _)
SplitLines(s, cur) ==
    IF s = <<>> THEN <<cur>>
    ELSE IF Head(s) = "\n" THEN <<cur>> \o SplitLines(Tail(s), <<>>)
    ELSE SplitLines(Tail(s), Append(cur, Head(s)))

\* re.sub(r'\s+', ' ', s): every whitespace run becomes one space
RECURSIVE CollapseSpaces(_, _)
CollapseSpaces(s, p) ==
    IF p > Len(s) THEN <<>>
    ELSE IF IsSpace(s[p]) THEN <<" ">> \o CollapseSpaces(s, SkipSpaces(s, p))
    ELSE <<s[p]>> \o CollapseSpaces(s, p + 1)

\* sep.join(parts)
RECURSIVE Join(_, _)
Join(parts, sep) ==
    IF parts = <<>> THEN <<>>
    ELSE IF Len(parts) = 1 THEN parts[1]
    ELSE parts[1] \o sep \o Join(Tail(parts), sep)

\* ------------------------------------------------------------------- state
VARIABLES
    pc,            \* position of the run
    use_easyocr,   \* OCREngine.use_easyocr
    engine_lines,  \* what the OCR engine read from the image, line by line
    ocr_text,      \* the text given to DataParser.parse
    lines,         \* parse: the physical lines of the text
    idx,           \* parse: index of the line the loop is at
    items,         \* the ReceiptItem objects, in creation order
    cidx,          \* categorize: index of the item the loop is at
    categorized,   \* categorize: full category path -> items (by index), in insertion order
    category_totals, \* full category path -> summed price, in insertion order
    total,         \* calculate_total(items)
    aidx,          \* identify_anomalies: index of the entry the loop is at
    anomalies,     \* identify_anomalies: the records appended so far
    call,          \* which call of categorize on these items this is (1 or 2)
    first_categorized, \* what the first call of categorize returned
    first_items,   \* the items as the first call of categorize left them
    percentages,   \* calculate_percentages: full category path -> share, in insertion order
    summary_stats, \* what generate_summary_stats returned
    self_categories,           \* the field categories of the shared ExpenseCategorizer
    self_category_thresholds,  \* the field category_thresholds of the shared SpendingAnalyzer
    inv,           \* concurrent pipeline invocations: the locals and the items of each
    tmp_exists     \* app.py: the temporary file of the upload is on disk

ocrVars == <<use_easyocr, engine_lines, ocr_text>>
parseVars == <<lines, idx>>
catVars == <<cidx, categorized, category_totals, total>>
anaVars == <<aidx, anomalies>>
callVars == <<call, first_categorized, first_items>>
statsVars == <<percentages, summary_stats>>
selfVars == <<self_categories, self_category_thresholds>>
restVars == <<callVars, statsVars, selfVars, inv, tmp_exists>>
vars == <<pc, ocrVars, parseVars, items, catVars, anaVars, restVars>>

\* ---------------------------------------------------------------- DataParser
\* ReceiptItem(name, quantity=1.0, price=0.0, category="Uncategorized")
Uncategorized == <<"U", "n", "c", "a", "t", "e", "g", "o", "r", "i", "z", "e", "d">>
ReceiptItem(n, q, p) == [name |-> n, quantity |-> q, price |-> p, category |-> Uncategorized]

\* DataParser.ignore_patterns
ignore_patterns ==
    << <<"t", "o", "t", "a", "l">>,
      <<"s", "u", "b", "t", "o", "t", "a", "l">>,
      <<"t", "a", "x">>,
      <<"b", "a", "l", "a", "n", "c", "e">>,
      <<"d", "u", "e">>,
      <<"c", "h", "a", "n", "g", "e">>,
      <<"c", "a", "s", "h">>,
      <<"c", "a", "r", "d">>,
      <<"v", "i", "s", "a">>,
      <<"m", "a", "s", "t", "e", "r", "c", "a", "r", "d">>,
      <<"a", "m", "e", "x">>,
      <<"r", "e", "c", "e", "i", "p", "t">>,
      <<"t", "h", "a", "n", "k", " ", "y", "o", "u">>,
      <<"s", "t", "o", "r", "e">>,
      <<"a", "d", "d", "r", "e", "s", "s">>,
      <<"p", "h", "o", "n", "e">>,
      <<"d", "a", "t", "e">>,
      <<"t", "i", "m", "e">>,
      <<"c", "a", "s", "h", "i", "e", "r">>,
      <<"r", "e", "g", "i", "s", "t", "e", "r">> >>

\* variant: the upper bound test is `price > 2000`
PriceMax_wide == 2000 * 100

\* price bounds of parse, in cents: price > 1000 or price < 0.01 is skipped
PriceMax == 100000
PriceMin == 1

NoMatch == [ok |-> FALSE, start |-> 0, stop |-> 0, val |-> 0]

\* price_pattern \$?\s*(\d+\.?\d{2}) tried at index p.  An optional '$' and
\* all the whitespace after it are consumed (a shorter whitespace prefix
\* leaves a space where a digit is required).  With r the maximal digit run
\* that follows: if r is followed by '.' and two digits, the group is
\* r '.' d d; otherwise '\.?' is empty, '\d{2}' takes the last two digits of
\* r and '\d+' the rest, which needs r to have three digits or more.
\* val is float(group) in cents.
PriceMatchAt(s, p) ==
    LET p1 == IF p <= Len(s) /\ s[p] = "$" THEN p + 1 ELSE p
        p2 == SkipSpaces(s, p1)
        e  == RunEnd(s, p2)
    IN  IF e > p2 /\ e + 2 <= Len(s) /\ s[e] = "."
           /\ IsDigit(s[e + 1]) /\ IsDigit(s[e + 2])
        THEN LET whole == NumVal(s, p2, e, 0)
                 cents == whole * 100 + DigitVal(s[e + 1]) * 10 + DigitVal(s[e + 2])
             IN [ok |-> TRUE, start |-> p, stop |-> e + 3,
                 val |-> IF whole >= NumCap THEN NumCap * 100 ELSE cents]
        ELSE IF e - p2 >= 3
        THEN [ok |-> TRUE, start |-> p, stop |-> e, val |-> NumVal(s, p2, e, 0) * 100]
        ELSE NoMatch

\* re.findall(price_pattern, s): the groups of the non-overlapping matches,
\* scanning left to right from index p
RECURSIVE FindAllPrices(_, _)
FindAllPrices(s, p) ==
    IF p > Len(s) THEN <<>>
    ELSE LET m == PriceMatchAt(s, p)
         IN IF m.ok THEN <<m.val>> \o FindAllPrices(s, m.stop)
            ELSE FindAllPrices(s, p + 1)

\* re.sub(price_pattern, '', s)
RECURSIVE SubPrices(_, _)
SubPrices(s, p) ==
    IF p > Len(s) THEN <<>>
    ELSE LET m == PriceMatchAt(s, p)
         IN IF m.ok THEN SubPrices(s, m.stop)
            ELSE <<s[p]>> \o SubPrices(s, p + 1)

\* quantity_pattern (\d+)\s*x\s* tried at index p: the maximal digit run at
\* p, all whitespace, a lower-case 'x', all whitespace.  val is float(group).
QuantityMatchAt(s, p) ==
    LET e == RunEnd(s, p)
        q == SkipSpaces(s, e)
    IN  IF e > p /\ q <= Len(s) /\ s[q] = "x"
        THEN [ok |-> TRUE, start |-> p, stop |-> SkipSpaces(s, q + 1),
              val |-> NumVal(s, p, e, 0)]
        ELSE NoMatch

\* re.search(quantity_pattern, s): the leftmost match
RECURSIVE SearchQuantity(_, _)
SearchQuantity(s, p) ==
    IF p > Len(s) THEN NoMatch
    ELSE LET m == QuantityMatchAt(s, p)
         IN IF m.ok THEN m ELSE SearchQuantity(s, p + 1)

\* re.sub(quantity_pattern, '', s)
RECURSIVE SubQuantities(_, _)
SubQuantities(s, p) ==
    IF p > Len(s) THEN <<>>
    ELSE LET m == QuantityMatchAt(s, p)
         IN IF m.ok THEN SubQuantities(s, m.stop)
            ELSE <<s[p]>> \o SubQuantities(s, p + 1)

\* re.sub(r'[^\w\s\-\.]', ' ', s)
ReplaceSpecial(s) ==
    [i \in 1..Len(s) |->
        IF IsWordChar(s[i]) \/ IsSpace(s[i]) \/ s[i] = "-" \/ s[i] = "."
        THEN s[i] ELSE " "]

\* variant: the patterns are searched in the line as written, not lower-cased
_should_ignore_cased(line) ==
    \E k \in 1..Len(ignore_patterns) : Contains(line, ignore_patterns[k])

\* DataParser._should_ignore
_should_ignore(line) ==
    LET line_lower == Lower(line)
    IN \E k \in 1..Len(ignore_patterns) : Contains(line_lower, ignore_patterns[k])

\* variant: the quantity marker is left in the name
_extract_item_name_keepqty(line) ==
    Title(Strip(CollapseSpaces(ReplaceSpecial(SubPrices(line, 1)), 1)))

\* DataParser._extract_item_name (its price and quantity arguments are unused)
_extract_item_name(line) ==
    LET l1 == SubPrices(line, 1)
        l2 == SubQuantities(l1, 1)
        l3 == ReplaceSpecial(l2)
        l4 == Strip(CollapseSpaces(l3, 1))
    IN Title(l4)

\* quantity of a line: 1.0 unless the quantity pattern is found
LineQuantity(line) ==
    LET quantity_match == SearchQuantity(line, 1)
    IN IF quantity_match.ok THEN quantity_match.val ELSE 1

\* the price of a line that has one: price_match[-1]
LastPrice(line) == LET price_match == FindAllPrices(line, 1) IN price_match[Len(price_match)]

\* what one iteration of the loop of parse does with a line
LineOutcome(line) ==
    IF _should_ignore(line) THEN "ignored"
    ELSE IF FindAllPrices(line, 1) = <<>> THEN "no_price"
    ELSE IF LastPrice(line) > PriceMax \/ LastPrice(line) < PriceMin THEN "price_range"
    ELSE IF Len(_extract_item_name(line)) > 2 THEN "item"
    ELSE "bad_name"

InParseLoop == pc = "parse_loop" /\ idx <= Len(lines)

\* parse: lines = ocr_text.strip().split('\n'); items = []
ParseBegin ==
    /\ pc = "parse"
    /\ lines' = SplitLines(Strip(ocr_text), <<>>)
    /\ idx' = 1
    /\ items' = <<>>
    /\ pc' = "parse_loop"
    /\ UNCHANGED <<ocrVars, catVars, anaVars, restVars>>

\* parse, one iteration: the line is dropped (continue)
ParseSkipLine ==
    /\ InParseLoop
    /\ LineOutcome(lines[idx]) # "item"
    /\ idx' = idx + 1
    /\ UNCHANGED <<pc, ocrVars, lines, items, catVars, anaVars, restVars>>

\* parse, one iteration: items.append(ReceiptItem(name, quantity, price))
ParseAppendItem ==
    /\ InParseLoop
    /\ LineOutcome(lines[idx]) = "item"
    /\ items' = Append(items, ReceiptItem(_extract_item_name(lines[idx]),
                                          LineQuantity(lines[idx]),
                                          LastPrice(lines[idx])))
    /\ idx' = idx + 1
    /\ UNCHANGED <<pc, ocrVars, lines, catVars, anaVars, restVars>>

\* parse: return items
ParseReturn ==
    /\ pc = "parse_loop"
    /\ idx > Len(lines)
    /\ pc' = "parsed"
    /\ UNCHANGED <<ocrVars, parseVars, items, catVars, anaVars, restVars>>

\* ----------------------------------------------------------------- OCREngine
\* OCREngine._clean_text
_clean_text(text) ==
    LET t1 == CollapseSpaces(text, 1)
        kept == SelectSeq([i \in 1..Len(SplitLines(t1, <<>>)) |-> Strip(SplitLines(t1, <<>>)[i])],
                          LAMBDA l : l # <<>>)
    IN Join(kept, <<"\n">>)

\* the text the engine call yields: EasyOCR's list joined with ' ',
\* Tesseract's image_to_string (one line per text line, each ended by '\n')
EngineText(easy, read) ==
    IF easy THEN Join(read, <<" ">>)
    ELSE Join(read, <<"\n">>) \o <<"\n">>

\* OCREngine.extract_text
ExtractText ==
    /\ pc = "ocr"
    /\ ocr_text' = _clean_text(EngineText(use_easyocr, engine_lines))
    /\ pc' = "parse"
    /\ UNCHANGED <<use_easyocr, engine_lines, parseVars, items, catVars, anaVars, restVars>>

\* -------------------------------------------------------- ExpenseCategorizer
\* ExpenseCategorizer.categories, in definition order
categories ==
    << [name |-> <<"G", "r", "o", "c", "e", "r", "i", "e", "s">>,
         keywords |-> << <<"g", "r", "o", "c", "e", "r", "y">>,
                          <<"s", "u", "p", "e", "r", "m", "a", "r", "k", "e", "t">>,
                          <<"f", "o", "o", "d">>,
                          <<"m", "a", "r", "t">>,
                          <<"m", "a", "r", "k", "e", "t">> >>,
         subcategories |->
                   << [name |-> <<"D", "a", "i", "r", "y">>,
                             keywords |-> << <<"m", "i", "l", "k">>,
                                            <<"c", "h", "e", "e", "s", "e">>,
                                            <<"y", "o", "g", "u", "r", "t">>,
                                            <<"b", "u", "t", "t", "e", "r">>,
                                            <<"c", "r", "e", "a", "m">>,
                                            <<"e", "g", "g", "s">> >>],
                      [name |-> <<"M", "e", "a", "t">>,
                             keywords |-> << <<"c", "h", "i", "c", "k", "e", "n">>,
                                            <<"b", "e", "e", "f">>,
                                            <<"p", "o", "r", "k">>,
                                            <<"f", "i", "s", "h">>,
                                            <<"m", "e", "a", "t">>,
                                            <<"s", "e", "a", "f", "o", "o", "d">> >>],
                      [name |-> <<"P", "r", "o", "d", "u", "c", "e">>,
                             keywords |-> << <<"a", "p", "p", "l", "e">>,
                                            <<"b", "a", "n", "a", "n", "a">>,
                                            <<"o", "r", "a", "n", "g", "e">>,
                                            <<"v", "e", "g", "e", "t", "a", "b", "l", "e">>,
                                            <<"f", "r", "u", "i", "t">>,
                                            <<"l", "e", "t", "t", "u", "c", "e">>,
                                            <<"t", "o", "m", "a", "t", "o">> >>],
                      [name |-> <<"B", "a", "k", "e", "r", "y">>,
                             keywords |-> << <<"b", "r", "e", "a", "d">>,
                                            <<"c", "a", "k", "e">>,
                                            <<"m", "u", "f", "f", "i", "n">>,
                                            <<"d", "o", "n", "u", "t">>,
                                            <<"p", "a", "s", "t", "r", "y">>,
                                            <<"b", "a", "g", "e", "l">> >>],
                      [name |-> <<"B", "e", "v", "e", "r", "a", "g", "e", "s">>,
                             keywords |-> << <<"w", "a", "t", "e", "r">>,
                                            <<"s", "o", "d", "a">>,
                                            <<"j", "u", "i", "c", "e">>,
                                            <<"c", "o", "f", "f", "e", "e">>,
                                            <<"t", "e", "a">>,
                                            <<"d", "r", "i", "n", "k">> >>],
                      [name |-> <<"S", "n", "a", "c", "k", "s">>,
                             keywords |-> << <<"c", "h", "i", "p">>,
                                            <<"c", "a", "n", "d", "y">>,
                                            <<"c", "h", "o", "c", "o", "l", "a", "t", "e">>,
                                            <<"c", "o", "o", "k", "i", "e">>,
                                            <<"s", "n", "a", "c", "k">>,
                                            <<"c", "r", "a", "c", "k", "e", "r">> >>],
                      [name |-> <<"F", "r", "o", "z", "e", "n">>,
                             keywords |-> << <<"f", "r", "o", "z", "e", "n">>,
                                            <<"i", "c", "e", " ", "c", "r", "e", "a", "m">>,
                                            <<"p", "i", "z", "z", "a">> >>],
                      [name |-> <<"P", "a", "n", "t", "r", "y">>,
                             keywords |-> << <<"r", "i", "c", "e">>,
                                            <<"p", "a", "s", "t", "a">>,
                                            <<"c", "e", "r", "e", "a", "l">>,
                                            <<"s", "a", "u", "c", "e">>,
                                            <<"c", "a", "n">>,
                                            <<"o", "i", "l">> >>] >>],
       [name |-> <<"D", "i", "n", "i", "n", "g">>,
         keywords |-> << <<"r", "e", "s", "t", "a", "u", "r", "a", "n", "t">>,
                          <<"c", "a", "f", "e">>,
                          <<"s", "t", "a", "r", "b", "u", "c", "k", "s">>,
                          <<"m", "c", "d", "o", "n", "a", "l", "d">>,
                          <<"p", "i", "z", "z", "a", " ", "h", "u", "t">>,
                          <<"k", "f", "c">> >>,
         subcategories |->
                   << [name |-> <<"F", "a", "s", "t", " ", "F", "o", "o", "d">>,
                             keywords |-> << <<"b", "u", "r", "g", "e", "r">>,
                                            <<"f", "r", "i", "e", "s">>,
                                            <<"m", "c", "d", "o", "n", "a", "l", "d">>,
                                            <<"k", "f", "c">>,
                                            <<"w", "e", "n", "d", "y">> >>],
                      [name |-> <<"R", "e", "s", "t", "a", "u", "r", "a", "n", "t">>,
                             keywords |-> << <<"d", "i", "n", "n", "e", "r">>,
                                            <<"l", "u", "n", "c", "h">>,
                                            <<"b", "r", "e", "a", "k", "f", "a", "s", "t">>,
                                            <<"r", "e", "s", "t", "a", "u", "r", "a", "n", "t">> >>],
                      [name |-> <<"C", "o", "f", "f", "e", "e", " ", "S", "h", "o", "p">>,
                             keywords |-> << <<"s", "t", "a", "r", "b", "u", "c", "k", "s">>,
                                            <<"c", "o", "f", "f", "e", "e">>,
                                            <<"c", "a", "f", "e">> >>] >>],
       [name |-> <<"S", "h", "o", "p", "p", "i", "n", "g">>,
         keywords |-> << <<"w", "a", "l", "m", "a", "r", "t">>,
                          <<"t", "a", "r", "g", "e", "t">>,
                          <<"c", "o", "s", "t", "c", "o">>,
                          <<"a", "m", "a", "z", "o", "n">>,
                          <<"m", "a", "l", "l">>,
                          <<"s", "t", "o", "r", "e">> >>,
         subcategories |->
                   << [name |-> <<"C", "l", "o", "t", "h", "i", "n", "g">>,
                             keywords |-> << <<"s", "h", "i", "r", "t">>,
                                            <<"p", "a", "n", "t">>,
                                            <<"j", "e", "a", "n">>,
                                            <<"d", "r", "e", "s", "s">>,
                                            <<"s", "h", "o", "e">> >>],
                      [name |-> <<"E", "l", "e", "c", "t", "r", "o", "n", "i", "c", "s">>,
                             keywords |-> << <<"p", "h", "o", "n", "e">>,
                                            <<"c", "h", "a", "r", "g", "e", "r">>,
                                            <<"c", "a", "b", "l", "e">>,
                                            <<"b", "a", "t", "t", "e", "r", "y">> >>],
                      [name |-> <<"H", "o", "u", "s", "e", "h", "o", "l", "d">>,
                             keywords |-> << <<"c", "l", "e", "a", "n", "i", "n", "g">>,
                                            <<"t", "o", "w", "e", "l">>,
                                            <<"p", "a", "p", "e", "r">>,
                                            <<"s", "o", "a", "p">> >>] >>],
       [name |-> <<"T", "r", "a", "n", "s", "p", "o", "r", "t", "a", "t", "i", "o", "n">>,
         keywords |-> << <<"g", "a", "s">>,
                          <<"u", "b", "e", "r">>,
                          <<"l", "y", "f", "t">>,
                          <<"t", "a", "x", "i">>,
                          <<"t", "r", "a", "n", "s", "i", "t">>,
                          <<"m", "e", "t", "r", "o">>,
                          <<"b", "u", "s">> >>,
         subcategories |->
                   << [name |-> <<"F", "u", "e", "l">>,
                             keywords |-> << <<"g", "a", "s">>,
                                            <<"p", "e", "t", "r", "o", "l">> >>],
                      [name |-> <<"R", "i", "d", "e", "s", "h", "a", "r", "e">>,
                             keywords |-> << <<"u", "b", "e", "r">>,
                                            <<"l", "y", "f", "t">>,
                                            <<"t", "a", "x", "i">> >>],
                      [name |-> <<"P", "u", "b", "l", "i", "c", " ", "T", "r", "a", "n", "s", "i", "t">>,
                             keywords |-> << <<"b", "u", "s">>,
                                            <<"m", "e", "t", "r", "o">>,
                                            <<"t", "r", "a", "i", "n">> >>] >>],
       [name |-> <<"H", "e", "a", "l", "t", "h", "c", "a", "r", "e">>,
         keywords |-> << <<"p", "h", "a", "r", "m", "a", "c", "y">>,
                          <<"c", "v", "s">>,
                          <<"w", "a", "l", "g", "r", "e", "e", "n", "s">>,
                          <<"m", "e", "d", "i", "c", "a", "l">>,
                          <<"d", "o", "c", "t", "o", "r">> >>,
         subcategories |->
                   << [name |-> <<"P", "h", "a", "r", "m", "a", "c", "y">>,
                             keywords |-> << <<"m", "e", "d", "i", "c", "i", "n", "e">>,
                                            <<"p", "i", "l", "l">>,
                                            <<"v", "i", "t", "a", "m", "i", "n">> >>],
                      [name |-> <<"M", "e", "d", "i", "c", "a", "l">>,
                             keywords |-> << <<"d", "o", "c", "t", "o", "r">>,
                                            <<"c", "l", "i", "n", "i", "c">>,
                                            <<"h", "o", "s", "p", "i", "t", "a", "l">> >>] >>] >>

\* Python's None (the subcategory names are non-empty strings, exactly the
\* values `if subcategory` takes for true)
None == <<>>
Other == <<"O", "t", "h", "e", "r">>
PathSep == <<" ", ">", " ">>

\* any(keyword in item_lower for keyword in keywords)
AnyKeyword(item_lower, keywords) ==
    \E k \in 1..Len(keywords) : Contains(item_lower, keywords[k])

\* the inner loops of _get_category: index of the first subcategory from j on
\* with a matching keyword, 0 when the loop ends without a return
RECURSIVE FirstSubcat(_, _, _)
FirstSubcat(item_lower, subcats, j) ==
    IF j > Len(subcats) THEN 0
    ELSE IF AnyKeyword(item_lower, subcats[j].keywords) THEN j
    ELSE FirstSubcat(item_lower, subcats, j + 1)

\* variant: subcategories are looked at only under a top-level keyword match
RECURSIVE GatedCategoryFrom(_, _)
GatedCategoryFrom(item_lower, c) ==
    IF c > Len(categories) THEN <<Other, None>>
    ELSE LET category_data == categories[c]
             j == FirstSubcat(item_lower, category_data.subcategories, 1)
         IN IF AnyKeyword(item_lower, category_data.keywords)
            THEN (IF j # 0
                  THEN <<category_data.name, category_data.subcategories[j].name>>
                  ELSE <<category_data.name, None>>)
            ELSE GatedCategoryFrom(item_lower, c + 1)

_get_category_gated(item_name) == GatedCategoryFrom(Lower(item_name), 1)

\* the outer loop of _get_category from category c on
RECURSIVE CategoryFrom(_, _)
CategoryFrom(item_lower, c) ==
    IF c > Len(categories) THEN <<Other, None>>
    ELSE LET category_data == categories[c]
             j == FirstSubcat(item_lower, category_data.subcategories, 1)
         IN IF AnyKeyword(item_lower, category_data.keywords)
            THEN (IF j # 0
                  THEN <<category_data.name, category_data.subcategories[j].name>>
                  ELSE <<category_data.name, None>>)
            ELSE IF j # 0
            THEN <<category_data.name, category_data.subcategories[j].name>>
            ELSE CategoryFrom(item_lower, c + 1)

\* ExpenseCategorizer._get_category
_get_category(item_name) == CategoryFrom(Lower(item_name), 1)

\* variant: the path is joined with '/'
FullCategory_slash(cat) == IF cat[2] # None THEN cat[1] \o <<"/">> \o cat[2] ELSE cat[1]

\* f"{category} > {subcategory}" if subcategory else category
FullCategory(cat) == IF cat[2] # None THEN cat[1] \o PathSep \o cat[2] ELSE cat[1]

\* index of key in an insertion-ordered dict (a sequence of entries), 0 if absent
KeyIndex(dict, key) ==
    IF \E k \in 1..Len(dict) : dict[k].category = key
    THEN CHOOSE k \in 1..Len(dict) : dict[k].category = key
    ELSE 0

\* sum(item.price for item in ...) over the items at the indices in members
RECURSIVE SumPrices(_, _)
SumPrices(its, members) ==
    IF members = <<>> THEN 0
    ELSE its[Head(members)].price + SumPrices(its, Tail(members))

\* variant: each total is the price of the first item of the group
calculate_category_totals_first(its, groups) ==
    [k \in 1..Len(groups) |->
        [category |-> groups[k].category, amount |-> its[groups[k].members[1]].price]]

\* calculate_category_totals (ExpenseCategorizer and SpendingAnalyzer alike)
calculate_category_totals(its, groups) ==
    [k \in 1..Len(groups) |->
        [category |-> groups[k].category, amount |-> SumPrices(its, groups[k].members)]]

\* DataParser.calculate_total
calculate_total(its) == SumPrices(its, [i \in 1..Len(its) |-> i])

\* names of the items given to categorize
ItemNames ==
    { <<"S", "t", "a", "r", "b", "u", "c", "k", "s", " ", "C", "o", "f", "f", "e", "e">>,
      <<"U", "b", "e", "r", " ", "R", "i", "d", "e">>,
      <<"W", "a", "l", "m", "a", "r", "t">>,
      <<"B", "u", "r", "g", "e", "r">>,
      <<"X", "y", "z">>,
      <<"M", "i", "l", "k", " ", "2">>,
      <<"P", "i", "z", "z", "a", " ", "H", "u", "t">>,
      <<"D", "o", "c", "t", "o", "r">> }

\* _get_category on the names above, evaluated once
CategoryOfName == [n \in ItemNames |-> _get_category(n)]
GetCategory(item_name) ==
    IF item_name \in ItemNames THEN CategoryOfName[item_name] ELSE _get_category(item_name)

\* variant: the mapping of the previous call is kept and filled further
CategorizeBegin_keep ==
    /\ pc = "categorize"
    /\ cidx' = 1
    /\ pc' = "categorize_loop"
    /\ UNCHANGED <<ocrVars, parseVars, items, categorized, category_totals, total,
                   anaVars, restVars>>

\* categorize: categorized = {}
CategorizeBegin ==
    /\ pc = "categorize"
    /\ categorized' = <<>>
    /\ cidx' = 1
    /\ pc' = "categorize_loop"
    /\ UNCHANGED <<ocrVars, parseVars, items, category_totals, total, anaVars, restVars>>

\* categorize, one iteration: the item gets its full category path and is
\* appended to the list of that path (created at its first use)
CategorizeItem ==
    /\ pc = "categorize_loop"
    /\ cidx <= Len(items)
    /\ LET full_category == FullCategory(GetCategory(items[cidx].name))
           k == KeyIndex(categorized, full_category)
       IN /\ categorized' =
                IF k = 0
                THEN Append(categorized, [category |-> full_category, members |-> <<cidx>>])
                ELSE [categorized EXCEPT ![k].members = Append(@, cidx)]
          /\ items' = [items EXCEPT ![cidx].category = full_category]
    /\ cidx' = cidx + 1
    /\ UNCHANGED <<pc, ocrVars, parseVars, category_totals, total, anaVars, restVars>>

\* categorize: return categorized
CategorizeReturn ==
    /\ pc = "categorize_loop"
    /\ cidx > Len(items)
    /\ pc' = "categorized"
    /\ UNCHANGED <<ocrVars, parseVars, items, catVars, anaVars, restVars>>

\* the caller passes the items the first call returned to categorize again
CategorizeAgain ==
    /\ pc = "categorized"
    /\ call = 1
    /\ call' = 2
    /\ first_categorized' = categorized
    /\ first_items' = items
    /\ pc' = "categorize"
    /\ UNCHANGED <<ocrVars, parseVars, items, catVars, anaVars, statsVars, selfVars, inv, tmp_exists>>

\* category_totals = categorizer.calculate_category_totals(categorized)
CalculateCategoryTotals ==
    /\ pc = "categorized"
    /\ category_totals' = calculate_category_totals(items, categorized)
    /\ pc' = "category_totals"
    /\ UNCHANGED <<ocrVars, parseVars, items, cidx, categorized, total, anaVars, restVars>>

\* total = parser.calculate_total(items)
CalculateTotal ==
    /\ pc = "category_totals"
    /\ total' = calculate_total(items)
    /\ pc' = "totalled"
    /\ UNCHANGED <<ocrVars, parseVars, items, cidx, categorized, category_totals, anaVars, restVars>>

\* ---------------------------------------------------------- SpendingAnalyzer
\* SpendingAnalyzer.category_thresholds, in cents
category_thresholds ==
    << [category |-> <<"G", "r", "o", "c", "e", "r", "i", "e", "s">>, threshold |-> 20000],
       [category |-> <<"D", "i", "n", "i", "n", "g">>, threshold |-> 10000],
       [category |-> <<"S", "h", "o", "p", "p", "i", "n", "g">>, threshold |-> 15000],
       [category |-> <<"T", "r", "a", "n", "s", "p", "o", "r", "t", "a", "t", "i", "o", "n">>, threshold |-> 10000],
       [category |-> <<"H", "e", "a", "l", "t", "h", "c", "a", "r", "e">>, threshold |-> 10000],
       [category |-> <<"O", "t", "h", "e", "r">>, threshold |-> 5000] >>

\* the default of category_thresholds.get(main_category, 50), in cents
DefaultThreshold == 5000

\* category.split(' > ')[0]: the text before the first separator
RECURSIVE SplitFirst(_, _, _)
SplitFirst(s, sep, p) ==
    IF p + Len(sep) - 1 > Len(s) THEN s
    ELSE IF SubSeq(s, p, p + Len(sep) - 1) = sep THEN SubSeq(s, 1, p - 1)
    ELSE SplitFirst(s, sep, p + 1)

\* category_thresholds.get(main_category, 50)
ThresholdOf(main_category) ==
    IF \E k \in 1..Len(category_thresholds) : category_thresholds[k].category = main_category
    THEN category_thresholds[CHOOSE k \in 1..Len(category_thresholds) :
                                 category_thresholds[k].category = main_category].threshold
    ELSE DefaultThreshold

\* variant: amount >= threshold * 1.5
IsHigh_inclusive(amount, threshold) == 2 * amount >= 3 * threshold

\* amount > threshold * 1.5, on cents
IsHigh(amount, threshold) == 2 * amount > 3 * threshold

\* the record identify_anomalies appends for an entry over its threshold
AnomalyRecord(entry, threshold) ==
    [category |-> entry.category,
     amount |-> entry.amount,
     threshold |-> threshold,
     excess |-> entry.amount - threshold,
     severity |-> IF IsHigh(entry.amount, threshold) THEN "High" ELSE "Medium"]

\* identify_anomalies: anomalies = []
AnomaliesBegin ==
    /\ pc = "anomalies"
    /\ anomalies' = <<>>
    /\ aidx' = 1
    /\ pc' = "anomalies_loop"
    /\ UNCHANGED <<ocrVars, parseVars, items, catVars, restVars>>

\* the sum of the entries of a mapping from position k on that share a main category
RECURSIVE MainTotal(_, _, _)
MainTotal(m, main, k) ==
    IF k > Len(m) THEN 0
    ELSE (IF SplitFirst(m[k].category, PathSep, 1) = main THEN m[k].amount ELSE 0)
         + MainTotal(m, main, k + 1)

\* variant: an entry is judged by the sum of the entries of its main category
AnomaliesEntry_bymain ==
    /\ pc = "anomalies_loop"
    /\ aidx <= Len(category_totals)
    /\ LET entry == category_totals[aidx]
           main_category == SplitFirst(entry.category, PathSep, 1)
           threshold == ThresholdOf(main_category)
       IN anomalies' = IF MainTotal(category_totals, main_category, 1) > threshold
                       THEN Append(anomalies, AnomalyRecord(entry, threshold))
                       ELSE anomalies
    /\ aidx' = aidx + 1
    /\ UNCHANGED <<pc, ocrVars, parseVars, items, catVars, restVars>>

\* identify_anomalies, one iteration
AnomaliesEntry ==
    /\ pc = "anomalies_loop"
    /\ aidx <= Len(category_totals)
    /\ LET entry == category_totals[aidx]
           main_category == SplitFirst(entry.category, PathSep, 1)
           threshold == ThresholdOf(main_category)
       IN anomalies' = IF entry.amount > threshold
                       THEN Append(anomalies, AnomalyRecord(entry, threshold))
                       ELSE anomalies
    /\ aidx' = aidx + 1
    /\ UNCHANGED <<pc, ocrVars, parseVars, items, catVars, restVars>>

\* identify_anomalies: return anomalies
AnomaliesReturn ==
    /\ pc = "anomalies_loop"
    /\ aidx > Len(category_totals)
    /\ pc' = "anomalies_done"
    /\ UNCHANGED <<ocrVars, parseVars, items, catVars, anaVars, restVars>>

\* identify_anomalies as a function of the mapping: the records of the
\* entries from position k on, in order
RECURSIVE identify_anomalies(_, _)
identify_anomalies(totals, k) ==
    IF k > Len(totals) THEN <<>>
    ELSE LET entry == totals[k]
             threshold == ThresholdOf(SplitFirst(entry.category, PathSep, 1))
         IN (IF entry.amount > threshold THEN <<AnomalyRecord(entry, threshold)>> ELSE <<>>)
            \o identify_anomalies(totals, k + 1)

\* variant: the share is not scaled to a percentage
calculate_percentages_fraction(totals, grand_total) ==
    IF grand_total = 0 THEN <<>>
    ELSE [k \in 1..Len(totals) |->
            [category |-> totals[k].category, num |-> totals[k].amount,
             den |-> grand_total]]

\* variant: the guard `if total == 0` is missing
calculate_percentages_unguarded(totals, grand_total) ==
    [k \in 1..Len(totals) |->
        [category |-> totals[k].category, num |-> totals[k].amount * 100, den |-> grand_total]]

\* SpendingAnalyzer.calculate_percentages: the share (amount / total) * 100 of
\* each entry as the fraction num / den, nothing when total == 0
calculate_percentages(totals, grand_total) ==
    IF grand_total = 0 THEN <<>>
    ELSE [k \in 1..Len(totals) |->
            [category |-> totals[k].category, num |-> totals[k].amount * 100,
             den |-> grand_total]]

\* percentages = analyzer.calculate_percentages(category_totals, total)
CalculatePercentages ==
    /\ pc = "totalled"
    /\ percentages' = calculate_percentages(category_totals, total)
    /\ pc' = "anomalies"
    /\ UNCHANGED <<ocrVars, parseVars, items, catVars, anaVars, callVars, summary_stats, selfVars, inv, tmp_exists>>

\* round(n / d, 2) on cents: the nearest cent, a tie going to the even cent
Round2(n, d) ==
    LET q == n \div d
        r == n % d
    IN  IF 2 * r < d THEN q
        ELSE IF 2 * r > d THEN q + 1
        ELSE IF q % 2 = 0 THEN q ELSE q + 1

\* variant: a later element with an equal key replaces the current maximum
RECURSIVE MaxIndex_last(_, _, _)
MaxIndex_last(keys, i, best) ==
    IF i > Len(keys) THEN best
    ELSE MaxIndex_last(keys, i + 1, IF keys[i] >= keys[best] THEN i ELSE best)

\* max(..., key=...): the scan of the elements from i on, best being the
\* index of the maximum so far; only a strictly greater key replaces it
RECURSIVE MaxIndex(_, _, _)
MaxIndex(keys, i, best) ==
    IF i > Len(keys) THEN best
    ELSE MaxIndex(keys, i + 1, IF keys[i] > keys[best] THEN i ELSE best)

\* SpendingAnalyzer.generate_summary_stats
generate_summary_stats(its, groups) ==
    LET total_items == Len(its)
        total_spent == SumPrices(its, [i \in 1..Len(its) |-> i])
        totals == calculate_category_totals(its, groups)
        most_expensive == MaxIndex([i \in 1..Len(its) |-> its[i].price], 2, 1)
        top_category == MaxIndex([k \in 1..Len(totals) |-> totals[k].amount], 2, 1)
    IN  [total_items |-> total_items,
         total_spent |-> Round2(total_spent, 1),
         avg_item_price |-> IF total_items > 0 THEN Round2(total_spent, total_items) ELSE 0,
         most_expensive_item |->
             IF its # <<>>
             THEN [name |-> its[most_expensive].name, price |-> its[most_expensive].price]
             ELSE [name |-> None, price |-> 0],
         top_category |->
             IF totals # <<>>
             THEN [name |-> totals[top_category].category,
                   amount |-> Round2(totals[top_category].amount, 1)]
             ELSE [name |-> None, amount |-> 0],
         category_count |-> Len(totals)]

\* summary_stats = analyzer.generate_summary_stats(items, categorized)
GenerateSummaryStats ==
    /\ pc = "anomalies_done"
    /\ summary_stats' = generate_summary_stats(items, categorized)
    /\ pc' = "stats_done"
    /\ UNCHANGED <<ocrVars, parseVars, items, catVars, anaVars, callVars, percentages, selfVars, inv, tmp_exists>>

\* ------------------------------------------------------------------ inputs
NoCategorizeYet == cidx = 1 /\ categorized = <<>> /\ category_totals = <<>> /\ total = 0
NoAnalysisYet == aidx = 1 /\ anomalies = <<>>
FirstCall == call = 1 /\ first_categorized = <<>> /\ first_items = <<>>
NoStatsYet == percentages = <<>> /\ summary_stats = <<>>

\* the two concurrent invocations of the claim on re-entrancy
Invocations == {1, 2}

\* the locals of one pipeline invocation and its own LineItem sequence
Frame(its, at) ==
    [pc |-> at, input |-> its, items |-> its, cidx |-> 1, categorized |-> <<>>,
     category_totals |-> <<>>, anomalies |-> <<>>, summary_stats |-> <<>>]

\* init_components: one ExpenseCategorizer and one SpendingAnalyzer, as constructed
SharedComponents ==
    /\ self_categories = categories
    /\ self_category_thresholds = category_thresholds

NoInvocation == inv = [p \in Invocations |-> Frame(<<>>, "idle")]

\* no upload has been written to a temporary file
NoUpload == tmp_exists = FALSE

RestIdle == FirstCall /\ NoStatsYet /\ SharedComponents /\ NoInvocation /\ NoUpload

\* pieces the generated texts are built from
Tokens ==
    { <<"M", "i", "l", "k", " ">>,
      <<"a", "B">>,
      <<"\n">>,
      <<" ">>,
      <<"x">>,
      <<"0">>,
      <<"2", "x", " ">>,
      <<"1", "0", "0", "0">>,
      <<".", "0", "1">>,
      <<".", "0", "0">>,
      <<"1", ".", "5", "0">>,
      <<"$", "3", ".", "9", "9">>,
      <<"%">>,
      <<"_">>,
      <<"T", "i", "m", "e">>,
      <<"B", "r", "e", "a", "d", " ", "2", ".", "5", "0">> }

\* texts of the documented scenarios
ScenarioTexts ==
    { <<"2", "x", " ", "M", "i", "l", "k", " ", "2", "%", " ", "$", "3", ".", "9", "9">>,
      <<"T", "O", "T", "A", "L", " ", "$", "4", "5", ".", "6", "7">>,
      <<"A", "p", "p", "l", "e", "s", " ", "1", "5", "0">>,
      <<"M", "i", "l", "k", " ", "1", ".", "5", "0", " ", "3", ".", "0", "0">>,
      <<"M", "i", "l", "k", " ", "3", ".", "9", "9", "\n", "B", "r", "e", "a", "d", " ", "2", ".", "5", "0">>,
      <<"M", "i", "l", "k", " ", "3", ".", "9", "9", "\n", "T", "O", "T", "A", "L", " ", "3", ".", "9", "9", "\n", "B", "r", "e", "a", "d", " ", "2", ".", "5", "0">>,
      <<"M", "i", "l", "k", " ", "0", ".", "0", "1", "\n", "M", "i", "l", "k", " ", "1", "0", "0", "0", "\n", "M", "i", "l", "k", " ", "1", "0", "0", "0", ".", "0", "1", "\n", "M", "i", "l", "k", " ", "0", ".", "0", "0">>,
      <<"0", "x", " ", "M", "i", "l", "k", " ", "3", ".", "9", "9">> }

\* lines printed on a receipt
ReceiptLines ==
    { <<"M", "i", "l", "k", " ", "3", ".", "9", "9">>,
      <<"B", "r", "e", "a", "d", " ", "2", ".", "5", "0">>,
      <<"T", "O", "T", "A", "L", " ", "6", ".", "4", "9">> }

\* concatenations of at most n tokens
RECURSIVE TokenTexts(_)
TokenTexts(n) ==
    IF n = 0 THEN {<<>>}
    ELSE LET shorter == TokenTexts(n - 1)
         IN shorter \cup {t \o tok : t \in shorter, tok \in Tokens}

Texts == TokenTexts(MaxTokens) \cup ScenarioTexts

EngineReads ==
    UNION {[1..n -> ReceiptLines] : n \in 1..MaxOcrLines}

\* a receipt image goes through the OCR engine and the parser
InitOcr ==
    /\ pc = "ocr"
    /\ use_easyocr \in BOOLEAN
    /\ engine_lines \in EngineReads
    /\ ocr_text = <<>>
    /\ lines = <<>>
    /\ idx = 1
    /\ items = <<>>
    /\ NoCategorizeYet
    /\ NoAnalysisYet
    /\ RestIdle

\* DataParser.parse is called with a text
InitParse ==
    /\ pc = "parse"
    /\ use_easyocr = TRUE
    /\ engine_lines = <<>>
    /\ ocr_text \in Texts
    /\ lines = <<>>
    /\ idx = 1
    /\ items = <<>>
    /\ NoCategorizeYet
    /\ NoAnalysisYet
    /\ RestIdle

Init == InitOcr \/ InitParse

Next ==
    \/ ExtractText
    \/ ParseBegin
    \/ ParseSkipLine
    \/ ParseAppendItem
    \/ ParseReturn

Spec == Init /\ [][Next]_vars

\* ---------------------------------------------- categorizer on item sequences
\* number of items of a categorized receipt
MaxItems == 3

\* prices (cents) of the items given to categorize
ItemPrices == {450, 1200}

ItemChoices == {ReceiptItem(n, 1, p) : n \in ItemNames, p \in ItemPrices}
ItemSeqs == UNION {[1..n -> ItemChoices] : n \in 0..MaxItems}

InitCat ==
    /\ pc = "categorize"
    /\ use_easyocr = TRUE
    /\ engine_lines = <<>>
    /\ ocr_text = <<>>
    /\ lines = <<>>
    /\ idx = 1
    /\ items \in ItemSeqs
    /\ NoCategorizeYet
    /\ NoAnalysisYet
    /\ RestIdle

NextCat ==
    \/ CategorizeBegin
    \/ CategorizeItem
    \/ CategorizeReturn
    \/ CategorizeAgain
    \/ CalculateCategoryTotals
    \/ CalculateTotal
    \/ CalculatePercentages
    \/ AnomaliesBegin
    \/ AnomaliesEntry
    \/ AnomaliesReturn
    \/ GenerateSummaryStats

SpecCat == InitCat /\ [][NextCat]_vars

\* ------------------------------------------- analyzer on category totals
\* number of entries of a category-totals mapping
MaxEntries == 2

\* keys and amounts (cents) of the category totals given to identify_anomalies
TotalsKeys ==
    { <<"G", "r", "o", "c", "e", "r", "i", "e", "s", " ", ">", " ", "D", "a", "i", "r", "y">>,
      <<"G", "r", "o", "c", "e", "r", "i", "e", "s", " ", ">", " ", "M", "e", "a", "t">>,
      <<"S", "h", "o", "p", "p", "i", "n", "g">>,
      <<"O", "t", "h", "e", "r">>,
      <<"T", "r", "a", "v", "e", "l">> }
TotalsAmounts ==
    {5000, 5001, 7500, 7501, 15000, 15001, 18000, 20000, 20001, 22500, 22501,
     30000, 30001}

TotalsEntries == {[category |-> k, amount |-> a] : k \in TotalsKeys, a \in TotalsAmounts}

\* mappings: no key occurs twice
TotalsMappings ==
    {m \in UNION {[1..n -> TotalsEntries] : n \in 0..MaxEntries} :
        \A i, j \in 1..Len(m) : i # j => m[i].category # m[j].category}

RECURSIVE AmountsSum(_)
AmountsSum(m) == IF m = <<>> THEN 0 ELSE Head(m).amount + AmountsSum(Tail(m))

\* the analyzer is called with a mapping and its grand total, or the total 0
InitAnalyze ==
    /\ pc = "totalled"
    /\ use_easyocr = TRUE
    /\ engine_lines = <<>>
    /\ ocr_text = <<>>
    /\ lines = <<>>
    /\ idx = 1
    /\ items = <<>>
    /\ cidx = 1
    /\ categorized = <<>>
    /\ category_totals \in TotalsMappings
    /\ total \in {0, AmountsSum(category_totals)}
    /\ NoAnalysisYet
    /\ RestIdle

NextAnalyze ==
    \/ CalculatePercentages
    \/ AnomaliesBegin
    \/ AnomaliesEntry
    \/ AnomaliesReturn

SpecAnalyze == InitAnalyze /\ [][NextAnalyze]_vars

\* ------------------------------------------------ concurrent invocations
\* Each invocation p runs categorize, calculate_category_totals,
\* identify_anomalies and generate_summary_stats on the shared components.
\* categorize is interleaved per loop iteration, where it writes item.category;
\* the other three read their arguments and the shared fields only and return
\* new objects, so each is one step.

MaxConcItems == 2
ConcPrices == {450, 30000}
ConcNames ==
    { <<"B", "u", "r", "g", "e", "r">>,
      <<"X", "y", "z">> }
ConcItemSeqs ==
    UNION {[1..n -> {ReceiptItem(n1, 1, p1) : n1 \in ConcNames, p1 \in ConcPrices}] :
                n \in 0..MaxConcItems}

\* variant: the mapping under construction is kept on the shared categorizer,
\* not in the frame of the call
GroupsOwner_shared(p) == CHOOSE q \in Invocations : \A r \in Invocations : q <= r

\* the frame holding the local `categorized` of invocation p: its own
GroupsOwner(p) == p

\* categorize: categorized = {}
InvCategorizeBegin(p) ==
    /\ inv[p].pc = "categorize"
    /\ inv' = [inv EXCEPT ![GroupsOwner(p)].categorized = <<>>,
                          ![p].cidx = 1,
                          ![p].pc = "categorize_loop"]

\* categorize, one iteration
InvCategorizeItem(p) ==
    /\ inv[p].pc = "categorize_loop"
    /\ inv[p].cidx <= Len(inv[p].items)
    /\ LET i == inv[p].cidx
           o == GroupsOwner(p)
           full_category == FullCategory(GetCategory(inv[p].items[i].name))
           k == KeyIndex(inv[o].categorized, full_category)
       IN inv' = [inv EXCEPT
                    ![o].categorized =
                        IF k = 0
                        THEN Append(@, [category |-> full_category, members |-> <<i>>])
                        ELSE [@ EXCEPT ![k].members = Append(@, i)],
                    ![p].items[i].category = full_category,
                    ![p].cidx = i + 1]

\* categorize: return categorized
InvCategorizeReturn(p) ==
    /\ inv[p].pc = "categorize_loop"
    /\ inv[p].cidx > Len(inv[p].items)
    /\ inv' = [inv EXCEPT ![p].categorized = inv[GroupsOwner(p)].categorized,
                          ![p].pc = "categorized"]

\* category_totals = categorizer.calculate_category_totals(categorized)
InvCalculateCategoryTotals(p) ==
    /\ inv[p].pc = "categorized"
    /\ inv' = [inv EXCEPT
                 ![p].category_totals = calculate_category_totals(inv[p].items, inv[p].categorized),
                 ![p].pc = "category_totals"]

\* anomalies = analyzer.identify_anomalies(category_totals)
InvIdentifyAnomalies(p) ==
    /\ inv[p].pc = "category_totals"
    /\ inv' = [inv EXCEPT ![p].anomalies = identify_anomalies(inv[p].category_totals, 1),
                          ![p].pc = "anomalies_done"]

\* summary_stats = analyzer.generate_summary_stats(items, categorized)
InvGenerateSummaryStats(p) ==
    /\ inv[p].pc = "anomalies_done"
    /\ inv' = [inv EXCEPT
                 ![p].summary_stats = generate_summary_stats(inv[p].items, inv[p].categorized),
                 ![p].pc = "stats_done"]

\* the invocations start together, each on its own items
InitConc ==
    /\ pc = "concurrent"
    /\ use_easyocr = TRUE
    /\ engine_lines = <<>>
    /\ ocr_text = <<>>
    /\ lines = <<>>
    /\ idx = 1
    /\ items = <<>>
    /\ NoCategorizeYet
    /\ NoAnalysisYet
    /\ FirstCall
    /\ NoStatsYet
    /\ SharedComponents
    /\ NoUpload
    /\ \E its \in [Invocations -> ConcItemSeqs] :
          inv = [p \in Invocations |-> Frame(its[p], "categorize")]

NextConc ==
    \E p \in Invocations :
        /\ \/ InvCategorizeBegin(p)
           \/ InvCategorizeItem(p)
           \/ InvCategorizeReturn(p)
           \/ InvCalculateCategoryTotals(p)
           \/ InvIdentifyAnomalies(p)
           \/ InvGenerateSummaryStats(p)
        /\ UNCHANGED <<pc, ocrVars, parseVars, items, catVars, anaVars, callVars, statsVars,
                       selfVars, tmp_exists>>

SpecConc == InitConc /\ [][NextConc]_vars

\* ------------------------------------------------------- app.py, one run
\* One run of the script for an uploaded receipt: the upload is written to a
\* temporary file, then preprocessing, OCR, parsing and, when there are items,
\* categorizing, analysis and the results section.

\* with tempfile.NamedTemporaryFile(delete=False, suffix='.jpg') as tmp_file: write
AppUpload ==
    /\ pc = "upload"
    /\ tmp_exists' = TRUE
    /\ pc' = "preprocess"
    /\ UNCHANGED <<ocrVars, parseVars, items, catVars, anaVars, callVars, statsVars, selfVars, inv>>

\* processed_img = components['image_processor'].preprocess(tmp_path)
AppPreprocess ==
    /\ pc = "preprocess"
    /\ pc' = "ocr"
    /\ UNCHANGED <<ocrVars, parseVars, items, catVars, anaVars, restVars>>

\* preprocess raises (the image cannot be read): the run ends with the exception
AppPreprocessRaises ==
    /\ pc = "preprocess"
    /\ pc' = "preprocess_raised"
    /\ UNCHANGED <<ocrVars, parseVars, items, catVars, anaVars, restVars>>

\* extract_text logs and re-raises the exception of the engine
AppOcrRaises ==
    /\ pc = "ocr"
    /\ pc' = "ocr_raised"
    /\ UNCHANGED <<ocrVars, parseVars, items, catVars, anaVars, restVars>>

\* if items: categorize ...
AppItems ==
    /\ pc = "parsed"
    /\ items # <<>>
    /\ pc' = "categorize"
    /\ UNCHANGED <<ocrVars, parseVars, items, catVars, anaVars, restVars>>

\* else: st.error("No items could be extracted..."); the results section,
\* under `if uploaded_file and items`, is skipped and the script ends
AppNoItems ==
    /\ pc = "parsed"
    /\ items = <<>>
    /\ pc' = "run_end"
    /\ UNCHANGED <<ocrVars, parseVars, items, catVars, anaVars, restVars>>

\* if uploaded_file and items: the results section, ending with os.unlink(tmp_path)
AppResults ==
    /\ pc = "stats_done"
    /\ items # <<>>
    /\ tmp_exists' = FALSE
    /\ pc' = "run_end"
    /\ UNCHANGED <<ocrVars, parseVars, items, catVars, anaVars, callVars, statsVars, selfVars, inv>>

\* a receipt image is uploaded; what the engine will read from it is drawn
InitApp ==
    /\ pc = "upload"
    /\ use_easyocr \in BOOLEAN
    /\ engine_lines \in EngineReads
    /\ ocr_text = <<>>
    /\ lines = <<>>
    /\ idx = 1
    /\ items = <<>>
    /\ NoCategorizeYet
    /\ NoAnalysisYet
    /\ RestIdle

NextApp ==
    \/ AppUpload
    \/ AppPreprocess
    \/ AppPreprocessRaises
    \/ ExtractText
    \/ AppOcrRaises
    \/ ParseBegin
    \/ ParseSkipLine
    \/ ParseAppendItem
    \/ ParseReturn
    \/ AppItems
    \/ AppNoItems
    \/ CategorizeBegin
    \/ CategorizeItem
    \/ CategorizeReturn
    \/ CalculateCategoryTotals
    \/ CalculateTotal
    \/ CalculatePercentages
    \/ AnomaliesBegin
    \/ AnomaliesEntry
    \/ AnomaliesReturn
    \/ GenerateSummaryStats
    \/ AppResults

SpecApp == InitApp /\ [][NextApp]_vars

\* ------------------------------------------ any entry point of the modules

\* a caller enters at the parser, at the categorizer or at the analyzer
InitAll == Init \/ InitCat \/ InitAnalyze

NextAll == Next \/ NextCat \/ NextAnalyze

SpecAll == InitAll /\ [][NextAll]_vars

\* =================================================================== claims
\* text constants of the scenarios
TextMilk2Percent == <<"2", "x", " ", "M", "i", "l", "k", " ", "2", "%", " ", "$", "3", ".", "9", "9">>
TextTotal == <<"T", "O", "T", "A", "L", " ", "$", "4", "5", ".", "6", "7">>
TextTwoAmounts == <<"M", "i", "l", "k", " ", "1", ".", "5", "0", " ", "3", ".", "0", "0">>
TextWithNoiseLine == <<"M", "i", "l", "k", " ", "3", ".", "9", "9", "\n", "T", "O", "T", "A", "L", " ", "3", ".", "9", "9", "\n", "B", "r", "e", "a", "d", " ", "2", ".", "5", "0">>
TextBounds == <<"M", "i", "l", "k", " ", "0", ".", "0", "1", "\n", "M", "i", "l", "k", " ", "1", "0", "0", "0", "\n", "M", "i", "l", "k", " ", "1", "0", "0", "0", ".", "0", "1", "\n", "M", "i", "l", "k", " ", "0", ".", "0", "0">>
NameMilk == <<"M", "i", "l", "k">>
NameMilk2 == <<"M", "i", "l", "k", " ", "2">>

Last(q) == q[Len(q)]

\* ---- C1
\* C1: every item returned by DataParser.parse has 0.01 <= price <= 1000
\* (1 to 100000 cents): an amount outside the bounds never becomes an item.
C1_PriceWithinBounds ==
    \A i \in 1..Len(items) : items[i].price >= 1 /\ items[i].price <= 100000

\* both bounds were accepted and lines beyond them were dropped
C1_Witness ==
    /\ pc = "parsed"
    /\ ocr_text = TextBounds
    /\ \E i, j \in 1..Len(items) : items[i].price = 1 /\ items[j].price = 100000
    /\ Len(items) < Len(lines)

\* ---- C3
\* a monetary amount as the specification words it: optional '$', optional
\* spaces, digits, a decimal point, exactly two digits
DecimalAmountAt(s, p) ==
    LET p1 == IF p <= Len(s) /\ s[p] = "$" THEN p + 1 ELSE p
        p2 == SkipSpaces(s, p1)
        e  == RunEnd(s, p2)
    IN  IF e > p2 /\ e + 2 <= Len(s) /\ s[e] = "."
           /\ IsDigit(s[e + 1]) /\ IsDigit(s[e + 2])
        THEN [ok |-> TRUE, start |-> p, stop |-> e + 3,
              val |-> NumVal(s, p2, e, 0) * 100
                      + DigitVal(s[e + 1]) * 10 + DigitVal(s[e + 2])]
        ELSE NoMatch

RECURSIVE DecimalAmounts(_, _)
DecimalAmounts(s, p) ==
    IF p > Len(s) THEN <<>>
    ELSE LET m == DecimalAmountAt(s, p)
         IN IF m.ok THEN <<m.val>> \o DecimalAmounts(s, m.stop)
            ELSE DecimalAmounts(s, p + 1)

\* C3: a non-noise line without a substring "digits '.' two digits" produces
\* no item, and the price of an item is the last such amount of its line.
C3_DecimalAmountRequired ==
    [][(InParseLoop /\ ~_should_ignore(lines[idx])) =>
          IF DecimalAmounts(lines[idx], 1) = <<>>
          THEN items' = items
          ELSE (items' # items =>
                   Last(items').price = Last(DecimalAmounts(lines[idx], 1)))]_vars

\* ---- C6
\* C6: the text extract_text hands to parse has one physical line per line
\* the OCR engine read.
C6_LineStructureKept ==
    (pc # "ocr" /\ engine_lines # <<>>) =>
        SplitLines(Strip(ocr_text), <<>>) = engine_lines

\* ---- C8
\* C8: every item returned by DataParser.parse has a quantity > 0.
C8_QuantityPositive ==
    \A i \in 1..Len(items) : items[i].quantity > 0

\* ---- C9
\* indices of s covered by the matches of the price pattern, scanning from p
RECURSIVE PriceCover(_, _)
PriceCover(s, p) ==
    IF p > Len(s) THEN {}
    ELSE LET m == PriceMatchAt(s, p)
         IN IF m.ok THEN (m.start..(m.stop - 1)) \cup PriceCover(s, m.stop)
            ELSE PriceCover(s, p + 1)

\* indices of s covered by the last match of the price pattern
RECURSIVE LastPriceCover(_, _, _)
LastPriceCover(s, p, cur) ==
    IF p > Len(s) THEN cur
    ELSE LET m == PriceMatchAt(s, p)
         IN IF m.ok THEN LastPriceCover(s, m.stop, m.start..(m.stop - 1))
            ELSE LastPriceCover(s, p + 1, cur)

\* indices of s covered by the quantity markers, scanning from p
RECURSIVE QuantityCover(_, _)
QuantityCover(s, p) ==
    IF p > Len(s) THEN {}
    ELSE LET m == QuantityMatchAt(s, p)
         IN IF m.ok THEN (m.start..(m.stop - 1)) \cup QuantityCover(s, m.stop)
            ELSE QuantityCover(s, p + 1)

\* indices of s covered by the quantity marker the quantity was read from
FirstQuantityCover(s) ==
    LET m == SearchQuantity(s, 1)
    IN IF m.ok THEN m.start..(m.stop - 1) ELSE {}

\* s without the characters at the indices in drop
RECURSIVE Without(_, _, _)
Without(s, drop, p) ==
    IF p > Len(s) THEN <<>>
    ELSE IF p \in drop THEN Without(s, drop, p + 1)
    ELSE <<s[p]>> \o Without(s, drop, p + 1)

\* blank out what is not a letter, a digit, whitespace, '-' or '.'
BlankNonAlnum(s) ==
    [i \in 1..Len(s) |->
        IF IsDigit(s[i]) \/ IsUpper(s[i]) \/ IsLower(s[i]) \/ IsSpace(s[i])
           \/ s[i] \in {"-", "."}
        THEN s[i] ELSE " "]

\* the same, keeping the underscore too
BlankNonWord(s) ==
    [i \in 1..Len(s) |-> IF s[i] = "_" THEN "_" ELSE BlankNonAlnum(s)[i]]

Tidy(s) == Title(Strip(CollapseSpaces(s, 1)))

\* the name as the claim derives it: only the amount selected as the price
\* and the marker the quantity was read from are removed
NameKeepingOtherAmounts(line) ==
    Tidy(BlankNonAlnum(
        Without(line, LastPriceCover(line, 1, {}) \cup FirstQuantityCover(line), 1)))

\* the name as amended: every amount is removed, then every quantity marker
\* of what is left; the underscore is kept
NameWithoutAmounts(line) ==
    LET rest == Without(line, PriceCover(line, 1), 1)
    IN Tidy(BlankNonWord(Without(rest, QuantityCover(rest, 1), 1)))

\* C9 as stated, on the lines whose amounts all have a decimal point: the name
\* keeps all text of the line but the selected price substring and the
\* quantity marker, earlier amounts included.
C9_OtherAmountsKept ==
    [][(/\ InParseLoop
        /\ items' # items
        /\ FindAllPrices(lines[idx], 1) = DecimalAmounts(lines[idx], 1)) =>
          Last(items').name = NameKeepingOtherAmounts(lines[idx])]_vars

\* C9 amended: the name of an accepted item is the line with every substring
\* matching the price pattern removed, then every quantity marker removed,
\* other characters than word characters, whitespace, '-' and '.' blanked,
\* whitespace collapsed and trimmed, then title-cased; "2x Milk 2% $3.99"
\* gives name "Milk 2", quantity 2.0, price 3.99.
C9_NameDerivation ==
    /\ [][(InParseLoop /\ items' # items) =>
             Last(items').name = NameWithoutAmounts(lines[idx])]_vars
    /\ []((pc = "parsed" /\ ocr_text = TextMilk2Percent) =>
             items = <<[name |-> NameMilk2, quantity |-> 2, price |-> 399,
                        category |-> Uncategorized]>>)

\* the earlier amount 1.50 is gone from the name of "Milk 1.50 3.00"
C9_Witness ==
    /\ pc = "parsed"
    /\ ocr_text = TextTwoAmounts
    /\ Len(items) = 1
    /\ items[1].name = NameMilk
    /\ items[1].price = 300

\* ---- C10
\* the noise tokens of the claim
NoiseTokens ==
    { <<"t", "o", "t", "a", "l">>,
      <<"s", "u", "b", "t", "o", "t", "a", "l">>,
      <<"t", "a", "x">>,
      <<"b", "a", "l", "a", "n", "c", "e">>,
      <<"d", "u", "e">>,
      <<"c", "h", "a", "n", "g", "e">>,
      <<"c", "a", "s", "h">>,
      <<"c", "a", "r", "d">>,
      <<"v", "i", "s", "a">>,
      <<"m", "a", "s", "t", "e", "r", "c", "a", "r", "d">>,
      <<"a", "m", "e", "x">>,
      <<"r", "e", "c", "e", "i", "p", "t">>,
      <<"t", "h", "a", "n", "k", " ", "y", "o", "u">>,
      <<"s", "t", "o", "r", "e">>,
      <<"a", "d", "d", "r", "e", "s", "s">>,
      <<"p", "h", "o", "n", "e">>,
      <<"d", "a", "t", "e">>,
      <<"t", "i", "m", "e">>,
      <<"c", "a", "s", "h", "i", "e", "r">>,
      <<"r", "e", "g", "i", "s", "t", "e", "r">> }

IsNoiseLine(line) == \E tok \in NoiseTokens : Contains(Lower(line), tok)

\* the items of a sequence of lines, each line taken on its own
RECURSIVE ItemsOfLines(_)
ItemsOfLines(ls) ==
    IF ls = <<>> THEN <<>>
    ELSE (IF LineOutcome(Head(ls)) = "item"
          THEN <<ReceiptItem(_extract_item_name(Head(ls)), LineQuantity(Head(ls)),
                             LastPrice(Head(ls)))>>
          ELSE <<>>) \o ItemsOfLines(Tail(ls))

\* C10: a line containing a noise token anywhere produces no item, and the
\* items returned are those of the other lines of the text.
C10_NoiseLinesDropped ==
    /\ [][(InParseLoop /\ IsNoiseLine(lines[idx])) => items' = items]_vars
    /\ [](pc = "parsed" =>
             items = ItemsOfLines(SelectSeq(lines, LAMBDA l : ~IsNoiseLine(l))))

\* a noise line with an amount between two item lines left no item
C10_Witness ==
    /\ pc = "parsed"
    /\ ocr_text = TextWithNoiseLine
    /\ \E i \in 1..Len(lines) : IsNoiseLine(lines[i]) /\ FindAllPrices(lines[i], 1) # <<>>
    /\ Len(items) = 2

\* ---- C2
RECURSIVE SumAmounts(_)
SumAmounts(totals) ==
    IF totals = <<>> THEN 0 ELSE Head(totals).amount + SumAmounts(Tail(totals))

RECURSIVE SumItemPrices(_)
SumItemPrices(its) ==
    IF its = <<>> THEN 0 ELSE Head(its).price + SumItemPrices(Tail(its))

\* the places (group, position) where item i is filed
PlacesOf(i) ==
    {<<k, j>> \in (1..Len(categorized)) \X (1..Len(items)) :
        j <= Len(categorized[k].members) /\ categorized[k].members[j] = i}

RefOrder ==
    << <<"G", "r", "o", "c", "e", "r", "i", "e", "s">>,
       <<"D", "i", "n", "i", "n", "g">>,
       <<"S", "h", "o", "p", "p", "i", "n", "g">>,
       <<"T", "r", "a", "n", "s", "p", "o", "r", "t", "a", "t", "i", "o", "n">>,
       <<"H", "e", "a", "l", "t", "h", "c", "a", "r", "e">> >>

Min(S) == CHOOSE x \in S : \A y \in S : x <= y

RefCategory(main) == categories[CHOOSE c \in 1..Len(categories) : categories[c].name = main]

RefTopMatch(name_lower, main) ==
    \E k \in 1..Len(RefCategory(main).keywords) :
        Contains(name_lower, RefCategory(main).keywords[k])

RefSubMatches(name_lower, main) ==
    {j \in 1..Len(RefCategory(main).subcategories) :
        \E k \in 1..Len(RefCategory(main).subcategories[j].keywords) :
            Contains(name_lower, RefCategory(main).subcategories[j].keywords[k])}

\* the reference scan of the claim: the first main category, in the order
\* above, with a top-level or a subcategory keyword in the name, and its
\* first matching subcategory if it has one
RefScan(item_name) ==
    LET name_lower == Lower(item_name)
        hits == {r \in 1..Len(RefOrder) :
                    \/ RefTopMatch(name_lower, RefOrder[r])
                    \/ RefSubMatches(name_lower, RefOrder[r]) # {}}
    IN  IF hits = {} THEN <<Other, None>>
        ELSE LET main == RefOrder[Min(hits)]
                 subs == RefSubMatches(name_lower, main)
             IN IF subs = {} THEN <<main, None>>
                ELSE <<main, RefCategory(main).subcategories[Min(subs)].name>>

RefPath(item_name) ==
    LET r == RefScan(item_name)
    IN IF r[2] = None THEN r[1] ELSE r[1] \o <<" ", ">", " ">> \o r[2]

RefPathOfName == [n \in ItemNames |-> RefPath(n)]

\* C4: categorize files each item under the path of the reference scan of
\* its name: "Main" without a subcategory, "Main > Sub" with one.
C4_ReferenceScan ==
    [][(pc = "categorize_loop" /\ cidx <= Len(items)) =>
          LET path == RefPathOfName[items[cidx].name]
          IN /\ items'[cidx].category = path
             /\ \E k \in 1..Len(categorized') :
                   /\ categorized'[k].category = path
                   /\ Last(categorized'[k].members) = cidx]_vars

\* a subcategory keyword without a top-level one, a top-level keyword without
\* a subcategory, and no keyword at all
C4_Witness ==
    /\ pc = "categorized"
    /\ Len(items) = 3
    /\ items[1].name = <<"B", "u", "r", "g", "e", "r">>
    /\ items[1].category = <<"D", "i", "n", "i", "n", "g", " ", ">", " ", "F", "a", "s", "t", " ", "F", "o", "o", "d">>
    /\ items[2].name = <<"W", "a", "l", "m", "a", "r", "t">>
    /\ items[2].category = <<"G", "r", "o", "c", "e", "r", "i", "e", "s">>
    /\ items[3].name = <<"X", "y", "z">>
    /\ items[3].category = Other

\* ---- C5
IsScenario3 ==
    /\ Len(items) = 2
    /\ items[1].name = <<"S", "t", "a", "r", "b", "u", "c", "k", "s", " ", "C", "o", "f", "f", "e", "e">> /\ items[1].price = 450
    /\ items[2].name = <<"U", "b", "e", "r", " ", "R", "i", "d", "e">> /\ items[2].price = 1200

\* C5 as stated: "Starbucks Coffee" 4.50 and "Uber Ride" 12.00 give the groups
\* "Dining > Coffee Shop" and "Transportation > Rideshare", totals 4.50, 12.00.
C5_Scenario3AsStated ==
    (pc = "totalled" /\ IsScenario3) =>
        /\ categorized = <<[category |-> <<"D", "i", "n", "i", "n", "g", " ", ">", " ", "C", "o", "f", "f", "e", "e", " ", "S", "h", "o", "p">>, members |-> <<1>>],
                           [category |-> <<"T", "r", "a", "n", "s", "p", "o", "r", "t", "a", "t", "i", "o", "n", " ", ">", " ", "R", "i", "d", "e", "s", "h", "a", "r", "e">>, members |-> <<2>>]>>
        /\ category_totals = <<[category |-> <<"D", "i", "n", "i", "n", "g", " ", ">", " ", "C", "o", "f", "f", "e", "e", " ", "S", "h", "o", "p">>, amount |-> 450],
                               [category |-> <<"T", "r", "a", "n", "s", "p", "o", "r", "t", "a", "t", "i", "o", "n", " ", ">", " ", "R", "i", "d", "e", "s", "h", "a", "r", "e">>, amount |-> 1200]>>

\* C5 amended: the groups are "Groceries > Beverages" (the Starbucks item:
\* 'coffee' is a Groceries > Beverages keyword and Groceries is scanned
\* first) and "Transportation > Rideshare", totals 4.50 and 12.00.
C5_Scenario3 ==
    (pc = "totalled" /\ IsScenario3) =>
        /\ categorized = <<[category |-> <<"G", "r", "o", "c", "e", "r", "i", "e", "s", " ", ">", " ", "B", "e", "v", "e", "r", "a", "g", "e", "s">>, members |-> <<1>>],
                           [category |-> <<"T", "r", "a", "n", "s", "p", "o", "r", "t", "a", "t", "i", "o", "n", " ", ">", " ", "R", "i", "d", "e", "s", "h", "a", "r", "e">>, members |-> <<2>>]>>
        /\ category_totals = <<[category |-> <<"G", "r", "o", "c", "e", "r", "i", "e", "s", " ", ">", " ", "B", "e", "v", "e", "r", "a", "g", "e", "s">>, amount |-> 450],
                               [category |-> <<"T", "r", "a", "n", "s", "p", "o", "r", "t", "a", "t", "i", "o", "n", " ", ">", " ", "R", "i", "d", "e", "s", "h", "a", "r", "e">>, amount |-> 1200]>>

C5_Witness ==
    /\ pc = "totalled"
    /\ IsScenario3
    /\ items[1].category = <<"G", "r", "o", "c", "e", "r", "i", "e", "s", " ", ">", " ", "B", "e", "v", "e", "r", "a", "g", "e", "s">>
    /\ items[2].category = <<"T", "r", "a", "n", "s", "p", "o", "r", "t", "a", "t", "i", "o", "n", " ", ">", " ", "R", "i", "d", "e", "s", "h", "a", "r", "e">>

\* ---- C7
\* the thresholds of the specification, in cents
RefThreshold(main) ==
    CASE main = <<"G", "r", "o", "c", "e", "r", "i", "e", "s">> -> 20000
      [] main = <<"D", "i", "n", "i", "n", "g">> -> 10000
      [] main = <<"S", "h", "o", "p", "p", "i", "n", "g">> -> 15000
      [] main = <<"T", "r", "a", "n", "s", "p", "o", "r", "t", "a", "t", "i", "o", "n">> -> 10000
      [] main = <<"H", "e", "a", "l", "t", "h", "c", "a", "r", "e">> -> 10000
      [] OTHER -> 5000

RecordsOf(category) == {j \in 1..Len(anomalies) : anomalies[j].category = category}

\* C7: an entry with amount a and threshold t yields no anomaly when a <= t,
\* one Medium anomaly when t < a <= 1.5 t, one High anomaly when a > 1.5 t;
\* the anomaly carries threshold t and excess a - t > 0.
C7_SeverityTrichotomy ==
    pc = "anomalies_done" =>
        \A k \in 1..Len(category_totals) :
            LET a == category_totals[k].amount
                t == RefThreshold(SplitFirst(category_totals[k].category, <<" ", ">", " ">>, 1))
                recs == RecordsOf(category_totals[k].category)
            IN /\ a <= t => recs = {}
               /\ a > t => Cardinality(recs) = 1
               /\ \A j \in recs :
                     /\ anomalies[j].amount = a
                     /\ anomalies[j].threshold = t
                     /\ anomalies[j].excess = a - t
                     /\ anomalies[j].excess > 0
                     /\ (2 * a <= 3 * t) => anomalies[j].severity = "Medium"
                     /\ (2 * a > 3 * t) => anomalies[j].severity = "High"

\* Shopping at exactly 1.5 times its threshold is Medium, Other at exactly
\* its threshold is no anomaly
C7_Witness ==
    /\ pc = "anomalies_done"
    /\ category_totals = <<[category |-> <<"S", "h", "o", "p", "p", "i", "n", "g">>, amount |-> 22500],
                           [category |-> <<"O", "t", "h", "e", "r">>, amount |-> 5000]>>
    /\ anomalies = <<[category |-> <<"S", "h", "o", "p", "p", "i", "n", "g">>, amount |-> 22500, threshold |-> 15000,
                      excess |-> 7500, severity |-> "Medium"]>>

\* ---- C11
\* C11: a second call of categorize on the already-categorized items returns
\* the same keys in the same order with the same items in each group, and
\* leaves every category field as the first call set it.
C11_Idempotent ==
    (pc = "categorized" /\ call = 2) =>
        /\ categorized = first_categorized
        /\ items = first_items
        /\ \A i \in 1..Len(items) : items[i].category # Uncategorized

\* the second call returned two groups, the first of them with two items
C11_Witness ==
    /\ pc = "categorized"
    /\ call = 2
    /\ Len(items) = 3
    /\ Len(categorized) = 2
    /\ categorized[1].members = <<1, 3>>
    /\ first_categorized = categorized

\* what generate_summary_stats returns when there is nothing to summarise
EmptyStats ==
    [total_items |-> 0, total_spent |-> 0, avg_item_price |-> 0,
     most_expensive_item |-> [name |-> None, price |-> 0],
     top_category |-> [name |-> None, amount |-> 0],
     category_count |-> 0]

AfterPercentages == {"anomalies", "anomalies_loop", "anomalies_done", "stats_done"}

\* C12: degenerate inputs give empty or zeroed results: parse of the empty
\* text returns no item; generate_summary_stats of no items and no groups
\* returns zero counts and amounts, no most expensive item and no top category;
\* identify_anomalies of the empty mapping returns no record; and
\* calculate_percentages returns the empty mapping whenever the total is 0.
C12_DegenerateInputs ==
    /\ (pc = "parsed" /\ ocr_text = <<>>) => items = <<>>
    /\ (pc = "stats_done" /\ items = <<>> /\ categorized = <<>>) => summary_stats = EmptyStats
    /\ (pc = "anomalies_done" /\ category_totals = <<>>) => anomalies = <<>>
    /\ (pc \in AfterPercentages /\ total = 0) => percentages = <<>>

C12_Witness ==
    /\ pc = "stats_done" /\ items = <<>> /\ categorized = <<>>
    /\ category_totals # <<>> /\ total = 0
    /\ percentages = <<>> /\ summary_stats = EmptyStats

\* the first position of the greatest key
FirstMax(keys) ==
    CHOOSE i \in 1..Len(keys) :
        /\ \A j \in 1..Len(keys) : keys[j] <= keys[i]
        /\ \A j \in 1..(i - 1) : keys[j] < keys[i]

\* C13: in the result of generate_summary_stats the most expensive item is the
\* first item of the input sequence among those of the greatest price, and the
\* top category is the first key of the category totals among those of the
\* greatest total, reported with that total.
C13_TieBreaking ==
    (pc = "stats_done" /\ items # <<>>) =>
        LET i == FirstMax([j \in 1..Len(items) |-> items[j].price])
            k == FirstMax([j \in 1..Len(category_totals) |-> category_totals[j].amount])
        IN  /\ summary_stats.most_expensive_item =
                [name |-> items[i].name, price |-> items[i].price]
            /\ summary_stats.top_category =
                [name |-> category_totals[k].category, amount |-> category_totals[k].amount]

C13_Witness ==
    /\ pc = "stats_done" /\ Len(items) = 3 /\ Len(category_totals) = 3
    /\ items[1].price < items[2].price /\ items[2].price = items[3].price
    /\ items[2].name # items[3].name
    /\ category_totals[1].amount < category_totals[2].amount
    /\ category_totals[2].amount = category_totals[3].amount
    /\ summary_stats.most_expensive_item.name = items[2].name
    /\ summary_stats.top_category.name = category_totals[2].category

RECURSIVE SumNums(_)
SumNums(p) == IF p = <<>> THEN 0 ELSE Head(p).num + SumNums(Tail(p))

\* C14: for the category totals of categorize(items) and the grand total
\* calculate_total(items) > 0, calculate_percentages returns one entry per key
\* of the category totals, in their order, of value amount / total * 100, and
\* the values sum to 100.
C14_Percentages ==
    (pc \in AfterPercentages /\ total > 0) =>
        /\ Len(percentages) = Len(category_totals)
        /\ \A k \in 1..Len(percentages) :
            /\ percentages[k].category = category_totals[k].category
            /\ percentages[k].den = total
            /\ percentages[k].num = category_totals[k].amount * 100
        /\ SumNums(percentages) = 100 * total

C14_Witness ==
    /\ pc = "stats_done" /\ total = 1650 /\ Len(items) = 2
    /\ Len(percentages) = 2
    /\ percentages[1].num = 45000 /\ percentages[2].num = 120000
    /\ percentages[1].den = 1650

\* an entry whose own amount exceeds the threshold of its main category
OverOwnThreshold(entry) ==
    entry.amount > RefThreshold(SplitFirst(entry.category, <<" ", ">", " ">>, 1))

\* C16: identify_anomalies returns, in the order of the input mapping, exactly
\* one record per entry whose own amount exceeds the threshold of its main
\* category (50 when none is configured) and none for any other entry; entries
\* that share a main category are not summed.
C16_PerEntry ==
    pc = "anomalies_done" =>
        [j \in 1..Len(anomalies) |->
            [category |-> anomalies[j].category, amount |-> anomalies[j].amount]]
        = SelectSeq(category_totals, OverOwnThreshold)

\* Groceries > Dairy and Groceries > Meat at 150 each: together 300 > 200, no anomaly
C16_Witness ==
    /\ pc = "anomalies_done"
    /\ Len(category_totals) = 2
    /\ category_totals[1] = [category |-> <<"G", "r", "o", "c", "e", "r", "i", "e", "s", " ", ">", " ", "D", "a", "i", "r", "y">>, amount |-> 15000]
    /\ category_totals[2] = [category |-> <<"G", "r", "o", "c", "e", "r", "i", "e", "s", " ", ">", " ", "M", "e", "a", "t">>, amount |-> 15000]
    /\ anomalies = <<>>

\* ---- C15
\* the groups categorize has built from the first n items of its, running alone
RECURSIVE AloneGroups(_, _)
AloneGroups(its, n) ==
    IF n = 0 THEN <<>>
    ELSE LET g == AloneGroups(its, n - 1)
             path == FullCategory(GetCategory(its[n].name))
             k == KeyIndex(g, path)
         IN IF k = 0 THEN Append(g, [category |-> path, members |-> <<n>>])
            ELSE [g EXCEPT ![k].members = Append(@, n)]

\* the items after categorize has handled the first n of them, running alone
AloneItems(its, n) ==
    [i \in 1..Len(its) |->
        IF i <= n THEN [its[i] EXCEPT !.category = FullCategory(GetCategory(its[i].name))]
        ELSE its[i]]

AloneTotals(its) ==
    calculate_category_totals(AloneItems(its, Len(its)), AloneGroups(its, Len(its)))

AfterCategorize == {"categorized", "category_totals", "anomalies_done", "stats_done"}

\* C15: under any interleaving of two invocations on the shared categorizer and
\* analyzer, each on its own items, every invocation's groups, category
\* totals, anomalies, summary statistics and items' category fields are those
\* of running it alone; its items change in their category field only; and
\* the taxonomy and the thresholds keep their constructed values.
C15_Reentrant ==
    /\ self_categories = categories
    /\ self_category_thresholds = category_thresholds
    /\ \A p \in Invocations :
        LET f == inv[p]
            n == Len(f.input)
        IN  /\ f.pc = "categorize" => f.items = f.input
            /\ f.pc = "categorize_loop" =>
                  /\ f.items = AloneItems(f.input, f.cidx - 1)
                  /\ f.categorized = AloneGroups(f.input, f.cidx - 1)
            /\ f.pc \in AfterCategorize =>
                  /\ f.items = AloneItems(f.input, n)
                  /\ f.categorized = AloneGroups(f.input, n)
            /\ f.pc \in AfterCategorize \ {"categorized"} =>
                  f.category_totals = AloneTotals(f.input)
            /\ f.pc \in {"anomalies_done", "stats_done"} =>
                  f.anomalies = identify_anomalies(AloneTotals(f.input), 1)
            /\ f.pc = "stats_done" =>
                  f.summary_stats =
                      generate_summary_stats(AloneItems(f.input, n), AloneGroups(f.input, n))

\* both invocations are in the loop of categorize at once, each has filed an
\* item under the same path, and later both have finished
C15_Witness ==
    /\ inv[1].pc = "stats_done" /\ inv[2].pc = "stats_done"
    /\ Len(inv[1].input) = 2 /\ Len(inv[2].input) = 2
    /\ inv[1].input # inv[2].input
    /\ inv[1].categorized[1].category = inv[2].categorized[1].category
    /\ inv[1].anomalies # <<>> /\ inv[2].anomalies = <<>>

\* ---- C17
\* C17: when the run of app.py for an uploaded receipt has ended, whether
\* with items, with no item or by an exception of preprocessing or OCR, the
\* temporary file written for the upload has been deleted.
RunOver == {"run_end", "preprocess_raised", "ocr_raised"}

C17_TempFileDeleted ==
    pc \in RunOver => ~tmp_exists

====
